---- MODULE Spec2Model ----
(***************************************************************************)
(* Model of MainDialog (typescript_nodejs/src/dialogs/main/index.ts): the  *)
(* turn router of the CorePlus bot.  One action per kind of inbound        *)
(* activity; each action is one whole call of MainDialog.run.              *)
(*                                                                         *)
(* The router's state is exogenous: the inner dialog stack of the          *)
(* component (dc), the outer stack that holds MainDialog itself, and the   *)
(* UserData record behind userDataAccessor.  The remaining variables are   *)
(* the record of the last turn: its activity, the locale it resolved, the  *)
(* calls it made on its collaborators (log), and what it returned.         *)
(*                                                                         *)
(* Spec takes the turns of one conversation one at a time, from any stored *)
(* state; SpecNoStoredLocale is Spec for a user with no stored locale;     *)
(* SpecConcurrent interleaves the turns of two conversations at the awaits *)
(* of locale resolution.                                                   *)
(***************************************************************************)
EXTENDS Integers, Sequences, FiniteSets

VARIABLES
    stack,        \* dc.stack: ids of the child dialogs begun on the component's DialogSet
    outerActive,  \* MainDialog is on the stack of the DialogSet that run() builds
    userLocale,   \* UserData.locale behind userDataAccessor ("" = no record / no locale)
    activity,     \* context.activity of the last turn
    locale,       \* the local `locale` of onContinueDialog in the last turn
    results,      \* the RecognizerResult of the last turn (NoResults: recognize not called)
    log,          \* calls made by the last turn, in order
    turnResult,   \* the DialogTurnResult onContinueDialog returned in the last turn
    threw,        \* the last turn ended in an exception
    outerLog,     \* calls run made in the last turn on the DialogContext it created
    turns,        \* concurrent host: the turns in flight, one per conversation
    localeStore   \* concurrent host: UserData.locale of each user

vars == <<stack, outerActive, userLocale, activity, locale, results, log, turnResult, threw,
          outerLog, turns, localeStore>>

----------------------------------------------------------------------------
(* Bounds of the model *)

MaxDepth == 2        \* deepest dialog stack explored
MaxMembers == 2      \* most members in membersAdded

----------------------------------------------------------------------------
(* Constants of the source *)

GREETING_INTENT == "Greeting"
NONE_INTENT == "None"
\* LUIS_CONFIDENCE_THRESHOLD = 0.7; scores are modelled in tenths
LUIS_CONFIDENCE_THRESHOLD == 7

QnADialog == "QnADialog"
CancelDialog == "CancelDialog"
GreetingDialog == "GreetingDialog"
WelcomeDialog == "WelcomeDialog"

\* super(MainDialog.name): the id of the component itself
MainDialogId == "MainDialog"

\* The dialogs added to the component's set by the constructor
DialogIds == {QnADialog, CancelDialog, GreetingDialog, WelcomeDialog}

\* DialogTurnStatus of botbuilder-dialogs
DialogTurnStatus == {"empty", "waiting", "complete", "cancelled"}

\* No dialog, no option, no value
None == "none"

\* context.activity: its type, text, number of attachments, locale and
\* membersAdded
Activity(type, text, attachments, hint, membersAdded) ==
    [locale |-> hint, type |-> type, text |-> text, attachments |-> attachments,
     membersAdded |-> membersAdded]

\* No activity: no turn is on record
NoActivity == Activity(None, <<>>, 0, "", <<>>)

----------------------------------------------------------------------------
(* The localizer (../shared/localizer): locales and localized strings.     *)
(* Strings that the router trims, lower-cases or compares are sequences of *)
(* one-letter strings.                                                     *)

\* localizer.getLocales()
getLocales == {"en-us", "es-es"}

\* localizer.getLocale(): the process default
getLocale == "en-us"

\* A locale no configuration supports
UnsupportedLocale == "fr-fr"

\* activity.locale: absent (""), a supported locale other than the default,
\* or an unsupported one
LocaleHints == {"", "es-es", UnsupportedLocale}

\* What the store behind userDataAccessor may hold for a user
StoredLocales == {""} \cup getLocales \cup {UnsupportedLocale}

\* localizer.gettext(locale, 'restartCommand'); the key itself for a locale
\* that has no catalogue
gettextRestartCommand(l) ==
    CASE l = "en-us" -> <<"R", "s">>
      [] l = "es-es" -> <<"R", "n">>
      [] OTHER -> <<"K">>

\* String.prototype.toLowerCase, letter by letter
toLowerChar(c) ==
    CASE c = "R" -> "r"
      [] c = "S" -> "s"
      [] c = "N" -> "n"
      [] c = "K" -> "k"
      [] c = "H" -> "h"
      [] OTHER -> c

toLowerCase(str) == [i \in 1..Len(str) |-> toLowerChar(str[i])]

RECURSIVE trimStart(_)
trimStart(str) ==
    IF str # <<>> /\ Head(str) = " " THEN trimStart(Tail(str)) ELSE str

RECURSIVE trimEnd(_)
trimEnd(str) ==
    IF str # <<>> /\ str[Len(str)] = " " THEN trimEnd(SubSeq(str, 1, Len(str) - 1)) ELSE str

\* String.prototype.trim
trim(str) == trimEnd(trimStart(str))

\* activity.text of the message activities explored (<<>>: no text)
Texts ==
    { <<>>,
      <<" ">>,
      <<" ", "R", "S", " ">>,
      <<"r", "n">>,
      <<"H">> }

\* The texts also explored with an attachment: no text, a blank text, and
\* an ordinary text
TextsWithAttachment == {<<>>, <<" ">>, <<"H">>}

\* activity.text and activity.attachments.length of the message activities
\* explored
Messages ==
    {<<text, 0>> : text \in Texts} \cup {<<text, 1>> : text \in TextsWithAttachment}

----------------------------------------------------------------------------
(* The classifier: RecognizerResult and LuisRecognizer.topIntent           *)

\* The intents of the LUIS application, in the order results.intents lists them
IntentNames == <<GREETING_INTENT, NONE_INTENT, "Cancel">>

\* Confidence scores in tenths: below, at and above the threshold
Scores == {LUIS_CONFIDENCE_THRESHOLD - 1, LUIS_CONFIDENCE_THRESHOLD, LUIS_CONFIDENCE_THRESHOLD + 1}

IntentSet == {IntentNames[i] : i \in 1..Len(IntentNames)}

\* results.entities: what the classifier extracted
EntityValues == {"entities"}

\* The scores explored for intent n: every score for the intents the router
\* names, one below and one above the threshold for the others
ScoresOf(n) ==
    IF n \in {GREETING_INTENT, NONE_INTENT} THEN Scores
    ELSE {LUIS_CONFIDENCE_THRESHOLD - 1, LUIS_CONFIDENCE_THRESHOLD + 1}

RecognizerResults ==
    [intents : {s \in [IntentSet -> Scores] : \A n \in IntentSet : s[n] \in ScoresOf(n)},
     entities : EntityValues]

NoResults == [intents |-> [n \in IntentSet |-> -1], entities |-> None]

\* The loop of LuisRecognizer.topIntent: the first intent of the highest
\* score that is at least minScore
RECURSIVE topIntentScan(_, _, _, _, _)
topIntentScan(intents, i, top, topScore, minScore) ==
    IF i > Len(IntentNames) THEN top
    ELSE LET name == IntentNames[i]
             score == intents[name]
         IN  IF score > topScore /\ score >= minScore
             THEN topIntentScan(intents, i + 1, name, score, minScore)
             ELSE topIntentScan(intents, i + 1, top, topScore, minScore)

\* Mutant of topIntent: the minimum score is not applied
topIntent_NoThreshold(res, minScore) ==
    LET t == topIntentScan(res.intents, 1, None, -1, 0)
    IN  IF t = None THEN NONE_INTENT ELSE t

\* LuisRecognizer.topIntent(results, undefined, minScore): the default intent
\* is 'None'
topIntent(res, minScore) ==
    LET t == topIntentScan(res.intents, 1, None, -1, minScore)
    IN  IF t = None THEN NONE_INTENT ELSE t

----------------------------------------------------------------------------
(* The record of a turn *)

\* One call made by the turn: op on dialog id (or None), the status it
\* returned (or None), whether it sent a reply to the user, its argument,
\* and how deep the component's stack was when it was made
Call(op, id, status, sent, arg, depth) ==
    [op |-> op, id |-> id, status |-> status, sent |-> sent, arg |-> arg, depth |-> depth]

\* A DialogTurnResult: its status and the call that returned it (an index of
\* the log; 0 for the module's default object)
Result(status, from) == [status |-> status, from |-> from]

\* DIALOG_TURN_RESULT_DEFAULT
DIALOG_TURN_RESULT_DEFAULT == Result("waiting", 0)

\* The state a handler works on: the component's stack, the stored locale,
\* the calls so far, context.responded, the handler's turnResult, the
\* recognizer's results, the resolved locale, and whether an exception is
\* propagating
Frame(stk, stored) ==
    [stack |-> stk, userLocale |-> stored, locale |-> "", results |-> NoResults,
     log |-> <<>>, turnResult |-> DIALOG_TURN_RESULT_DEFAULT, threw |-> FALSE,
     responded |-> FALSE]

\* Every frame of S taken through step F; a propagating exception skips F
Then(S, F(_)) == UNION {IF f.threw THEN {f} ELSE F(f) : f \in S}

----------------------------------------------------------------------------
(* The Dialog Stack: DialogContext of botbuilder-dialogs, as the router    *)
(* uses it.  What a child dialog does with a turn is not the router's:     *)
(* every outcome the engine can report is explored.                        *)

\* dc.activeDialog.id, None for no active dialog
activeDialog(stk) == IF stk = <<>> THEN None ELSE stk[Len(stk)]

\* The active dialog ends: it leaves the stack; its parent, if there is
\* one, is resumed and waits, else the stack reports complete
endDialog(stk) ==
    [stack |-> SubSeq(stk, 1, Len(stk) - 1),
     status |-> IF Len(stk) = 1 THEN "complete" ELSE "waiting"]

\* dc.continueDialog(): empty if no dialog is active; else the active
\* dialog takes the activity and waits, ends, or cancels the whole stack,
\* and may or may not reply
continueOutcomes(stk) ==
    IF stk = <<>>
    THEN {[stack |-> <<>>, status |-> "empty", sent |-> FALSE]}
    ELSE {[stack |-> o.stack, status |-> o.status, sent |-> s] :
             o \in {[stack |-> stk, status |-> "waiting"],
                    endDialog(stk),
                    [stack |-> <<>>, status |-> "cancelled"]},
             s \in BOOLEAN}

continueDialog(f) ==
    {[f EXCEPT !.stack = o.stack,
               !.log = Append(f.log, Call("continue", activeDialog(f.stack), o.status, o.sent, None, Len(f.stack))),
               !.responded = f.responded \/ o.sent,
               !.turnResult = Result(o.status, Len(f.log) + 1)] :
        o \in continueOutcomes(f.stack)}

\* dc.beginDialog(id, options): the dialog is pushed and waits, or runs to
\* its end at once.  A stack already MaxDepth deep is not explored further.
\* What a begun dialog sends is not recorded: the router does not read
\* context.responded after a begin.
beginOutcomes(stk, id) ==
    IF Len(stk) >= MaxDepth THEN {}
    ELSE {[stack |-> Append(stk, id), status |-> "waiting"], endDialog(Append(stk, id))}

beginDialog(f, id, options) ==
    {[f EXCEPT !.stack = o.stack,
               !.log = Append(f.log, Call("begin", id, o.status, FALSE, options, Len(f.stack))),
               !.turnResult = Result(o.status, Len(f.log) + 1)] :
        o \in beginOutcomes(f.stack, id)}

\* dc.repromptDialog(): the active dialog repeats its prompt; the stack is
\* as it was and nothing is returned
repromptDialog(f) ==
    {[f EXCEPT !.log = Append(f.log, Call("reprompt", activeDialog(f.stack), None, s, None, Len(f.stack))),
               !.responded = f.responded \/ s] :
        s \in BOOLEAN}

\* dc.cancelAllDialogs()
cancelAllDialogs(f) ==
    {[f EXCEPT !.stack = <<>>,
               !.log = Append(f.log, Call("cancelAll", None, None, FALSE, None, Len(f.stack)))]}

----------------------------------------------------------------------------
(* MainDialog *)

\* userDataAccessor.set(context, userData)
userDataAccessorSet(f, newLocale) ==
    [f EXCEPT !.userLocale = newLocale,
              !.log = Append(f.log, Call("set", None, None, FALSE, newLocale, Len(f.stack)))]

\* setUserLocale(context, newLocale)
setUserLocale(f, newLocale) ==
    IF f.userLocale # newLocale /\ newLocale # ""
    THEN userDataAccessorSet(f, newLocale)
    ELSE f

\* Mutant of resolveLocale: activity.locale is taken without looking it up
\* in getLocales
resolveLocale_NoValidation(stored, hint) ==
    IF stored = ""
    THEN IF hint # "" THEN hint ELSE getLocale
    ELSE stored

\* The locale onContinueDialog resolves from the stored locale and
\* activity.locale
resolveLocale(stored, hint) ==
    IF stored = ""
    THEN LET l == IF hint # "" THEN hint ELSE getLocale
         IN  IF l \in getLocales THEN l ELSE getLocale
    ELSE stored

\* Mutant of attachmentResponse: the active dialog is given the activity too
attachmentResponse_Continues(f) ==
    continueDialog([f EXCEPT !.log = Append(f.log, Call("send", None, None, TRUE, f.locale, Len(f.stack))),
                             !.responded = TRUE])

\* routeMessage, the attachment branch: the canned reply, and the default
\* result
attachmentResponse(f) ==
    {[f EXCEPT !.log = Append(f.log, Call("send", None, None, TRUE, f.locale, Len(f.stack))),
               !.responded = TRUE,
               !.turnResult = DIALOG_TURN_RESULT_DEFAULT]}

\* Mutant of restartCommand: the stack is not cancelled before Welcome is begun
restartCommand_NoCancel(f) ==
    Then({userDataAccessorSet(f, f.locale)}, LAMBDA g : beginDialog(g, WelcomeDialog, None))

\* routeMessage, the restart command
restartCommand(f) ==
    Then(Then({userDataAccessorSet(f, f.locale)}, cancelAllDialogs),
         LAMBDA g : beginDialog(g, WelcomeDialog, None))

\* Mutant of continueQnA: complete stays complete
continueQnA_NoNormalize(f) ==
    IF activeDialog(f.stack) = QnADialog THEN continueDialog(f) ELSE {f}

\* routeMessage: an active QnADialog is continued first, and complete
\* becomes empty
continueQnA(f) ==
    IF activeDialog(f.stack) = QnADialog
    THEN {IF g.turnResult.status = "complete"
          THEN [g EXCEPT !.turnResult.status = "empty"]
          ELSE g : g \in continueDialog(f)}
    ELSE {f}

\* this.luisRecognizers[locale].recognize(dc.context): the dictionary holds
\* one recognizer per supported locale; any other key is undefined and the
\* call throws
recognize(f) ==
    IF f.locale \notin getLocales
    THEN {[f EXCEPT !.threw = TRUE]}
    ELSE {[f EXCEPT !.results = r,
                    !.log = Append(f.log, Call("recognize", None, None, FALSE, f.locale, Len(f.stack)))] :
             r \in RecognizerResults}

\* this.chitchatDialog.isTurnInterrupted(dc, topIntent): the policy is given
\* the dialog context and the effective top intent and answers true or
\* false; the router knows nothing else of it
isTurnInterrupted(f, top) ==
    {[interrupted |-> b,
      frame |-> [f EXCEPT !.log = Append(f.log,
                     Call("isTurnInterrupted", activeDialog(f.stack),
                          IF b THEN "interrupted" ELSE "notInterrupted",
                          FALSE, top, Len(f.stack)))]] :
        b \in BOOLEAN}

\* Mutant of interruption: an interrupted dialog is continued, Cancel or not
interruption_NoReprompt(f) ==
    UNION {IF r.interrupted /\ activeDialog(r.frame.stack) = None
           THEN {r.frame}
           ELSE continueDialog(r.frame) :
        r \in isTurnInterrupted(f, topIntent(f.results, LUIS_CONFIDENCE_THRESHOLD))}

\* Mutant of interruption: an interrupted CancelDialog is reprompted like
\* any other dialog
interruption_CancelReprompted(f) ==
    UNION {IF r.interrupted
           THEN IF activeDialog(r.frame.stack) # None
                THEN repromptDialog(r.frame)
                ELSE {r.frame}
           ELSE continueDialog(r.frame) :
        r \in isTurnInterrupted(f, topIntent(f.results, LUIS_CONFIDENCE_THRESHOLD))}

\* routeMessage: the effective top intent is computed, the interruption
\* policy is asked, and the active dialog is reprompted or continued
interruption(f) ==
    UNION {IF r.interrupted
           THEN IF activeDialog(r.frame.stack) # None
                THEN IF activeDialog(r.frame.stack) # CancelDialog
                     THEN repromptDialog(r.frame)
                     ELSE continueDialog(r.frame)
                ELSE {r.frame}
           ELSE continueDialog(r.frame) :
        r \in isTurnInterrupted(f, topIntent(f.results, LUIS_CONFIDENCE_THRESHOLD))}

\* Mutant of fallback: context.responded is not looked at
fallback_IgnoresResponded(f) ==
    CASE f.turnResult.status = "empty" ->
             IF topIntent(f.results, LUIS_CONFIDENCE_THRESHOLD) = GREETING_INTENT
             THEN beginDialog(f, GreetingDialog, f.results.entities)
             ELSE beginDialog(f, QnADialog, None)
      [] f.turnResult.status = "waiting" -> {f}
      [] f.turnResult.status = "complete" -> {f}
      [] OTHER -> cancelAllDialogs(f)

\* Mutant of fallback: the None intent, not every intent but Greeting, goes
\* to QnADialog; any other intent begins nothing
fallback_OnlyNoneToQnA(f) ==
    IF f.responded THEN {f}
    ELSE CASE f.turnResult.status = "empty" ->
                  IF topIntent(f.results, LUIS_CONFIDENCE_THRESHOLD) = GREETING_INTENT
                  THEN beginDialog(f, GreetingDialog, f.results.entities)
                  ELSE IF topIntent(f.results, LUIS_CONFIDENCE_THRESHOLD) = NONE_INTENT
                       THEN beginDialog(f, QnADialog, None)
                       ELSE beginDialog(f, GreetingDialog, None)
           [] f.turnResult.status = "waiting" -> {f}
           [] f.turnResult.status = "complete" -> {f}
           [] OTHER -> cancelAllDialogs(f)

\* routeMessage: what follows if no dialog has responded
fallback(f) ==
    IF f.responded THEN {f}
    ELSE CASE f.turnResult.status = "empty" ->
                  IF topIntent(f.results, LUIS_CONFIDENCE_THRESHOLD) = GREETING_INTENT
                  THEN beginDialog(f, GreetingDialog, f.results.entities)
                  ELSE beginDialog(f, QnADialog, None)
           [] f.turnResult.status = "waiting" -> {f}
           [] f.turnResult.status = "complete" -> {f}
           [] OTHER -> cancelAllDialogs(f)

\* Mutant of routeMessage: the restart command is looked for after an active
\* QnADialog was continued
routeMessage_RestartAfterQnA(f, act) ==
    LET utterance == toLowerCase(trim(act.text))
    IN  IF utterance = <<>> /\ act.attachments > 0
        THEN attachmentResponse(f)
        ELSE UNION {IF utterance = toLowerCase(gettextRestartCommand(h.locale))
                    THEN restartCommand(h)
                    ELSE Then(Then(Then({h}, recognize), interruption), fallback) :
                       h \in continueQnA(f)}

\* routeMessage(dc, locale)
routeMessage(f, act) ==
    LET utterance == toLowerCase(trim(act.text))
    IN  IF utterance = <<>> /\ act.attachments > 0
        THEN attachmentResponse(f)
        ELSE IF utterance = toLowerCase(gettextRestartCommand(f.locale))
             THEN restartCommand(f)
             ELSE Then(Then(Then(continueQnA(f), recognize), interruption), fallback)

\* welcomeUser(dc): Welcome is begun for each added member that is the
\* recipient
RECURSIVE welcomeLoop(_, _, _)
welcomeLoop(S, members, idx) ==
    IF idx > Len(members) THEN S
    ELSE welcomeLoop(
             IF members[idx] = "bot"
             THEN Then(S, LAMBDA g : beginDialog(g, WelcomeDialog, None))
             ELSE S,
             members, idx + 1)

\* Mutant of welcomeUser: what beginDialog returned is not kept
welcomeUser_ResultDiscarded(f, act) ==
    {[g EXCEPT !.turnResult = f.turnResult] : g \in welcomeLoop({f}, act.membersAdded, 1)}

welcomeUser(f, act) == welcomeLoop({f}, act.membersAdded, 1)

\* onContinueDialog, the switch on context.activity.type; g.locale is the
\* resolved locale
dispatch(g, act) ==
    CASE act.type = "message" -> routeMessage(g, act)
      [] act.type = "conversationUpdate" -> welcomeUser(g, act)
      [] OTHER -> {g}

\* Mutant of onContinueDialog: the resolved locale is written in every turn
onContinueDialog_AlwaysWrites(f, act) ==
    LET l == resolveLocale(f.userLocale, act.locale)
    IN  dispatch([userDataAccessorSet(f, l) EXCEPT !.locale = l], act)

\* Mutant of onContinueDialog: a supported activity.locale is preferred to
\* the stored locale
onContinueDialog_HintPreferred(f, act) ==
    LET l == IF act.locale \in getLocales
             THEN act.locale
             ELSE resolveLocale(f.userLocale, act.locale)
    IN  dispatch([setUserLocale(f, l) EXCEPT !.locale = l], act)

\* Mutant of onContinueDialog: an activity of any other type is given to
\* the active dialog
onContinueDialog_OtherContinues(f, act) ==
    LET l == resolveLocale(f.userLocale, act.locale)
        g == [(IF f.userLocale = "" THEN setUserLocale(f, l) ELSE f) EXCEPT !.locale = l]
    IN  CASE act.type = "message" -> routeMessage(g, act)
          [] act.type = "conversationUpdate" -> welcomeUser(g, act)
          [] OTHER -> continueDialog(g)

\* onContinueDialog(dc)
onContinueDialog(f, act) ==
    LET l == resolveLocale(f.userLocale, act.locale)
        g == [(IF f.userLocale = "" THEN setUserLocale(f, l) ELSE f) EXCEPT !.locale = l]
    IN  dispatch(g, act)

\* onBeginDialog(dc)
onBeginDialog(f, act) == onContinueDialog(f, act)

\* dialogContext.continueDialog() of run: empty if MainDialog is not on the
\* stack; else the component's continueDialog runs onContinueDialog on the
\* component's stack and, unless that returned waiting, ends the component,
\* which leaves the outer stack empty and reports complete.  An exception
\* propagates and nothing is reported.
outerContinue(stk, outer, stored, act) ==
    IF outer
    THEN {[frame |-> f,
           reported |-> IF f.threw THEN None
                        ELSE IF f.turnResult.status = "waiting" THEN "waiting"
                        ELSE "complete"] :
             f \in onContinueDialog(Frame(stk, stored), act)}
    ELSE {[frame |-> Frame(stk, stored), reported |-> "empty"]}

\* What run leaves behind when the handler that ran last ended in frame f
\* and run made the calls calls: a component whose handler returned
\* anything but waiting has ended, and its stack has gone with it
afterRun(f, calls) ==
    [stack |-> IF f.threw \/ f.turnResult.status = "waiting" THEN f.stack ELSE <<>>,
     outerActive |-> f.threw \/ f.turnResult.status = "waiting",
     outerLog |-> calls,
     frame |-> f]

\* Mutant of run: MainDialog is begun whenever none is left on the stack,
\* also right after the one that was there ended
run_BeginsUnlessWaiting(stk, outer, stored, act) ==
    UNION {LET first == Call("continue", IF outer THEN MainDialogId ELSE None,
                             c.reported, FALSE, None, IF outer THEN 1 ELSE 0)
           IN  IF c.reported \in {"empty", "complete"}
               THEN {afterRun(g, <<first, Call("begin", MainDialogId, g.turnResult.status,
                                                FALSE, None, 0)>>) :
                        g \in onBeginDialog([c.frame EXCEPT !.stack = <<>>,
                                                            !.turnResult = DIALOG_TURN_RESULT_DEFAULT],
                                            act)}
               ELSE {afterRun(c.frame, <<first>>)} :
        c \in outerContinue(stk, outer, stored, act)}

\* run(turnContext, accessor): the outer stack is continued, and MainDialog
\* is begun, in an instance with an empty stack of its own, if that
\* reported empty
run(stk, outer, stored, act) ==
    UNION {LET first == Call("continue", IF outer THEN MainDialogId ELSE None,
                             c.reported, FALSE, None, IF outer THEN 1 ELSE 0)
           IN  IF c.reported = "empty"
               THEN {afterRun(g, <<first, Call("begin", MainDialogId, g.turnResult.status,
                                                FALSE, None, 0)>>) :
                        g \in onBeginDialog([c.frame EXCEPT !.stack = <<>>,
                                                            !.turnResult = DIALOG_TURN_RESULT_DEFAULT],
                                            act)}
               ELSE {afterRun(c.frame, <<first>>)} :
        c \in outerContinue(stk, outer, stored, act)}

----------------------------------------------------------------------------
(* The state machine *)

RECURSIVE SeqsUpTo(_, _)
SeqsUpTo(S, n) ==
    IF n = 0 THEN {<<>>}
    ELSE LET shorter == SeqsUpTo(S, n - 1)
         IN  shorter \cup {Append(q, x) : q \in shorter, x \in S}

\* The conversation and the user are whatever the stores hold when the bot
\* is constructed: any stack of the component's dialogs, any stored locale.
\* The component's stack lives in MainDialog's instance on the outer stack.
Init ==
    /\ stack \in SeqsUpTo(DialogIds, MaxDepth)
    /\ outerActive \in BOOLEAN
    /\ (~outerActive => stack = <<>>)
    /\ userLocale \in StoredLocales
    /\ activity = NoActivity
    /\ locale = ""
    /\ results = NoResults
    /\ log = <<>>
    /\ turnResult = DIALOG_TURN_RESULT_DEFAULT
    /\ threw = FALSE
    /\ outerLog = <<>>
    /\ turns = <<>>
    /\ localeStore = <<>>

\* No turn is in progress or on record: the adapter holds no TurnContext
Idle == activity = NoActivity

\* One call of run on activity act, in a TurnContext of its own
Turn(act) ==
    /\ Idle
    /\ \E r \in run(stack, outerActive, userLocale, act) :
        /\ stack' = r.stack
        /\ outerActive' = r.outerActive
        /\ userLocale' = r.frame.userLocale
        /\ activity' = act
        /\ locale' = r.frame.locale
        /\ results' = r.frame.results
        /\ log' = r.frame.log
        /\ turnResult' = r.frame.turnResult
        /\ threw' = r.frame.threw
        /\ outerLog' = r.outerLog
        /\ UNCHANGED <<turns, localeStore>>

\* A message activity
MessageTurn ==
    \E m \in Messages, hint \in LocaleHints :
        Turn(Activity("message", m[1], m[2], hint, <<>>))

\* A conversationUpdate activity
ConversationUpdateTurn ==
    \E members \in SeqsUpTo({"bot", "user"}, MaxMembers), hint \in LocaleHints :
        Turn(Activity("conversationUpdate", <<>>, 0, hint, members))

\* An activity of any other type
OtherTurn ==
    \E hint \in LocaleHints :
        Turn(Activity("typing", <<>>, 0, hint, <<>>))

\* run has returned: the TurnContext and the locals of the turn are gone;
\* the stacks and the UserData record stay for the next activity
EndOfTurn ==
    /\ ~Idle
    /\ activity' = NoActivity
    /\ locale' = ""
    /\ results' = NoResults
    /\ log' = <<>>
    /\ turnResult' = DIALOG_TURN_RESULT_DEFAULT
    /\ threw' = FALSE
    /\ outerLog' = <<>>
    /\ UNCHANGED <<stack, outerActive, userLocale, turns, localeStore>>

Next == MessageTurn \/ ConversationUpdateTurn \/ OtherTurn \/ EndOfTurn

Spec == Init /\ [][Next]_vars

\* A user the store holds nothing for, in a conversation in any state
InitNoStoredLocale == Init /\ userLocale = ""

SpecNoStoredLocale == InitNoStoredLocale /\ [][Next]_vars

----------------------------------------------------------------------------
(* Reading the record of a turn *)

\* The positions of the calls of op in log lg
OpsIn(lg, op) == {i \in DOMAIN lg : lg[i].op = op}

IsStackOp(e) == e.op \in {"begin", "continue", "reprompt", "cancelAll"}

\* The calls made on the Dialog Stack, in order
StackOpsIn(lg) == SelectSeq(lg, IsStackOp)

\* The lowercased trimmed text of activity act
UtteranceOf(act) == toLowerCase(trim(act.text))

\* A message turn with no text and at least one attachment
IsAttachmentOnly(act) ==
    act.type = "message" /\ UtteranceOf(act) = <<>> /\ act.attachments > 0

\* A message turn whose text is the restart command of locale l
IsRestart(act, l) ==
    /\ act.type = "message"
    /\ ~IsAttachmentOnly(act)
    /\ UtteranceOf(act) = toLowerCase(gettextRestartCommand(l))

\* A message turn that is neither: it goes through classification
IsRouted(act, l) ==
    act.type = "message" /\ ~IsAttachmentOnly(act) /\ ~IsRestart(act, l)

----------------------------------------------------------------------------
(* C1: after a message turn whose lowercased trimmed text is the restart   *)
(* command of the locale, whatever was on the stack and in the store:      *)
(* every dialog that was on the stack is cancelled, Welcome is the only    *)
(* dialog begun and it is begun on the emptied stack, and the stored       *)
(* locale is the one the user had before the restart.                      *)
C1_RestartCancelsAllAndKeepsLocale ==
    [][IsRestart(activity', locale') =>
          /\ Cardinality(OpsIn(log', "begin")) = 1
          /\ \A b \in OpsIn(log', "begin") :
                /\ log'[b].id = WelcomeDialog
                /\ log'[b].depth = 0
                /\ \E c \in OpsIn(log', "cancelAll") : c < b
          /\ stack' \in {<<>>, <<WelcomeDialog>>}
          /\ userLocale' = locale'
          /\ (userLocale # "" => userLocale' = userLocale)]_vars

\* C1 witness: a restart in Spanish that cancelled a non-empty stack and
\* left Welcome waiting
C1_Witness ==
    /\ IsRestart(activity, locale)
    /\ \E c \in OpsIn(log, "cancelAll") : log[c].depth > 0
    /\ stack = <<WelcomeDialog>>
    /\ userLocale = "es-es"

----------------------------------------------------------------------------
(* The router's view at the fallback dispatch, read from the record *)

\* The last position of a non-empty set of positions
Last(S) == CHOOSE i \in S : \A j \in S : j <= i

\* The status the router holds once the interruption step is over: that of
\* the last continue, an active QnADialog's complete having become empty,
\* or the default waiting if nothing was continued
StatusAfterInterruptionIn(lg) ==
    LET cs == OpsIn(lg, "continue")
        ps == OpsIn(lg, "isTurnInterrupted")
    IN  IF cs = {} THEN "waiting"
        ELSE LET c == Last(cs)
             IN  IF lg[c].status = "complete" /\ \A q \in ps : c < q
                 THEN "empty"
                 ELSE lg[c].status

\* A reply was sent to the user by some call of the turn
RepliedIn(lg) == \E i \in DOMAIN lg : lg[i].sent

\* The dialogs begun by the fallback dispatch: the begins after the
\* interruption policy was asked
FallbackBeginsIn(lg) ==
    {b \in OpsIn(lg, "begin") : \E q \in OpsIn(lg, "isTurnInterrupted") : q < b}

----------------------------------------------------------------------------
(* C2: no routed message turn ends with a status after the interruption    *)
(* step that is none of empty, waiting, complete unless all dialogs were   *)
(* cancelled in the turn, whether or not a reply was sent.  The code       *)
(* cancels only under `if (!dc.context.responded)`: this is violated.      *)
C2_AnomalousStatusAlwaysCancels ==
    (/\ IsRouted(activity, locale)
     /\ OpsIn(log, "isTurnInterrupted") # {}
     /\ StatusAfterInterruptionIn(log) \notin {"empty", "waiting", "complete"})
        => OpsIn(log, "cancelAll") # {}

----------------------------------------------------------------------------
(* C3, as claimed: in every turn the locale the router dispatches with and *)
(* selects the classifier by is a supported locale, whatever the stored    *)
(* locale and the hint are.  A stored locale is never validated: violated. *)
C3_DispatchLocaleAlwaysSupported ==
    ~Idle => locale \in getLocales

(* C3, amended: when no locale is stored, the locale the router dispatches *)
(* with and selects the classifier by is the hint if the hint is a         *)
(* supported locale and the default otherwise, so it is supported; a       *)
(* stored locale is used as it is.                                         *)
C3_DispatchLocaleResolved ==
    [][(Idle /\ ~Idle') =>
          /\ (userLocale = "" =>
                /\ locale' \in getLocales
                /\ locale' = (IF activity'.locale \in getLocales
                              THEN activity'.locale ELSE getLocale))
          /\ (userLocale # "" => locale' = userLocale)
          /\ \A r \in OpsIn(log', "recognize") : log'[r].arg = locale']_vars

\* C3 witness: nothing was stored, the hint was unsupported, and the
\* classifier of the default locale was called
C3_Witness ==
    /\ activity.locale = UnsupportedLocale
    /\ log # <<>> /\ log[1].op = "set"
    /\ locale = getLocale
    /\ \E r \in OpsIn(log, "recognize") : log[r].arg = getLocale

----------------------------------------------------------------------------
(* C4: the fallback dispatch begins a dialog only if no reply was sent     *)
(* before it in the turn and the status after the interruption step is     *)
(* empty; after a reply, or with status waiting or complete, it begins     *)
(* nothing.                                                                *)
C4_FallbackOnlyIfSilentAndEmpty ==
    /\ \A b \in FallbackBeginsIn(log) :
          /\ ~\E i \in 1..(b - 1) : log[i].sent
          /\ StatusAfterInterruptionIn(log) = "empty"
    /\ (RepliedIn(log) \/ StatusAfterInterruptionIn(log) \in {"waiting", "complete"})
          => FallbackBeginsIn(log) = {}

\* C4 witness: an active QnADialog completed without a reply, the status
\* became empty and the fallback began a dialog
C4_Witness ==
    /\ FallbackBeginsIn(log) # {}
    /\ \E c \in OpsIn(log, "continue") : log[c].id = QnADialog /\ log[c].status = "complete"
    /\ ~RepliedIn(log)

----------------------------------------------------------------------------
(* C5: when the fallback dispatch fires, exactly one dialog is begun in    *)
(* the turn: GreetingDialog with the recognized entities as options if     *)
(* and only if the effective top intent is Greeting, and QnADialog with no *)
(* options for every other effective top intent.                           *)
C5_FallbackTarget ==
    FallbackBeginsIn(log) # {} =>
        /\ Cardinality(OpsIn(log, "begin")) = 1
        /\ \A b \in FallbackBeginsIn(log) : \A q \in OpsIn(log, "isTurnInterrupted") :
              IF log[q].arg = GREETING_INTENT
              THEN log[b].id = GreetingDialog /\ log[b].arg = results.entities
              ELSE log[b].id = QnADialog /\ log[b].arg = None

\* C5 witness: an intent that is bound to no dialog was on top and the
\* fallback began QnADialog
C5_Witness ==
    /\ \E q \in OpsIn(log, "isTurnInterrupted") : log[q].arg = "Cancel"
    /\ \E b \in FallbackBeginsIn(log) : log[b].id = QnADialog

----------------------------------------------------------------------------
(* C6: if every intent scores below 0.7 the effective top intent, given to *)
(* the interruption policy and used by the fallback dispatch, is None      *)
(* whichever intent scores highest; an intent that scores at least 0.7 and *)
(* above every other is the effective top intent, and whenever some intent *)
(* reaches 0.7 the effective top intent is one of the highest score.       *)
C6_EffectiveTopIntent ==
    \A q \in OpsIn(log, "isTurnInterrupted") :
        LET top == log[q].arg
            score == results.intents
        IN  /\ (\A n \in IntentSet : score[n] < LUIS_CONFIDENCE_THRESHOLD) =>
                  /\ top = NONE_INTENT
                  /\ \A b \in FallbackBeginsIn(log) : log[b].id = QnADialog
            /\ \A n \in IntentSet :
                  (/\ score[n] >= LUIS_CONFIDENCE_THRESHOLD
                   /\ \A m \in IntentSet \ {n} : score[m] < score[n]) => top = n
            /\ (\E n \in IntentSet : score[n] >= LUIS_CONFIDENCE_THRESHOLD) =>
                  /\ top \in IntentSet
                  /\ score[top] >= LUIS_CONFIDENCE_THRESHOLD
                  /\ \A m \in IntentSet : score[m] <= score[top]

\* C6 witness: Greeting scores highest but below the threshold, the policy
\* was given None and the fallback began QnADialog
C6_Witness ==
    /\ \A n \in IntentSet : results.intents[n] = LUIS_CONFIDENCE_THRESHOLD - 1
    /\ \E q \in OpsIn(log, "isTurnInterrupted") : log[q].arg = NONE_INTENT
    /\ \E b \in FallbackBeginsIn(log) : log[b].id = QnADialog

----------------------------------------------------------------------------
(* C7: a message turn with no text after trimming and at least one         *)
(* attachment makes no call on the Dialog Stack, calls neither the         *)
(* classifier nor the interruption policy, sends exactly one reply, in the *)
(* resolved locale, and returns the default waiting result; the stack is   *)
(* as it was, whatever dialog is active.                                   *)
C7_AttachmentOnlyTurn ==
    [][IsAttachmentOnly(activity') =>
          /\ StackOpsIn(log') = <<>>
          /\ OpsIn(log', "recognize") = {} /\ results' = NoResults
          /\ OpsIn(log', "isTurnInterrupted") = {}
          /\ Cardinality(OpsIn(log', "send")) = 1
          /\ \A i \in DOMAIN log' :
                log'[i].sent => (log'[i].op = "send" /\ log'[i].arg = locale')
          /\ turnResult' = DIALOG_TURN_RESULT_DEFAULT
          /\ ~threw'
          /\ stack' = stack]_vars

\* C7 witness: a blank text with an attachment while QnADialog is active
\* over another dialog
C7_Witness ==
    /\ IsAttachmentOnly(activity) /\ activity.text = <<" ">>
    /\ \E i \in OpsIn(log, "send") : log[i].depth = 2
    /\ activeDialog(stack) = QnADialog

----------------------------------------------------------------------------
(* C8: on a restart-command turn nothing but the restart handling runs:    *)
(* the classifier and the interruption policy are not called, no dialog is *)
(* continued or reprompted, the fallback dispatch does not run; the calls  *)
(* on the stack are cancel-all then begin Welcome, right after the write   *)
(* of UserData, and before it only locale resolution may have written.     *)
C8_RestartIsTheOnlyStep ==
    IsRestart(activity, locale) =>
        /\ results = NoResults
        /\ OpsIn(log, "recognize") = {}
        /\ OpsIn(log, "isTurnInterrupted") = {}
        /\ OpsIn(log, "continue") = {} /\ OpsIn(log, "reprompt") = {}
        /\ OpsIn(log, "send") = {}
        /\ Len(log) >= 3
        /\ log[Len(log) - 2].op = "set" /\ log[Len(log) - 2].arg = locale
        /\ log[Len(log) - 1].op = "cancelAll"
        /\ log[Len(log)].op = "begin" /\ log[Len(log)].id = WelcomeDialog
        /\ \A i \in 1..(Len(log) - 3) : log[i].op = "set"

\* C8 witness: " RS " restarts a conversation in which QnADialog was active
C8_Witness ==
    /\ IsRestart(activity, locale)
    /\ activity.text = <<" ", "R", "S", " ">>
    /\ \E c \in OpsIn(log, "cancelAll") : log[c].depth > 0
    /\ Len(log) = 3

----------------------------------------------------------------------------
(* C9: when the interruption policy returns true and a dialog other than   *)
(* CancelDialog is active, that dialog is reprompted, nothing else is      *)
(* called afterwards, no dialog is begun in the turn, and after the turn   *)
(* the dialog is the active one at the depth it had.                       *)
C9_InterruptedDialogIsReprompted ==
    \A q \in OpsIn(log, "isTurnInterrupted") :
        (log[q].status = "interrupted" /\ log[q].id \notin {None, CancelDialog}) =>
            /\ Len(log) = q + 1
            /\ log[q + 1].op = "reprompt"
            /\ log[q + 1].id = log[q].id
            /\ OpsIn(log, "begin") = {}
            /\ OpsIn(log, "cancelAll") = {}
            /\ Len(stack) = log[q].depth
            /\ activeDialog(stack) = log[q].id

\* C9 witness: GreetingDialog, active over another dialog, was interrupted
\* and its reprompt sent nothing
C9_Witness ==
    \E q \in OpsIn(log, "isTurnInterrupted") :
        /\ log[q].status = "interrupted" /\ log[q].id = GreetingDialog /\ log[q].depth = 2
        /\ ~RepliedIn(log)
        /\ stack[2] = GreetingDialog

----------------------------------------------------------------------------
(* C10: when QnADialog is the active dialog of a message turn that is      *)
(* neither attachment-only nor a restart, it is continued first, before    *)
(* the classifier is called; if it reports complete the router's status is *)
(* empty: it is what the turn returns if nothing is called on the stack    *)
(* afterwards, and with no reply sent the fallback dispatch begins a       *)
(* dialog.                                                                 *)
C10_QnAContinuedFirst ==
    [][(Idle /\ IsRouted(activity', locale') /\ activeDialog(stack) = QnADialog) =>
          LET k == IF userLocale = "" THEN 2 ELSE 1
          IN  /\ Len(log') >= k
              /\ log'[k].op = "continue" /\ log'[k].id = QnADialog
              /\ \A r \in OpsIn(log', "recognize") : k < r
              /\ (threw' \/ OpsIn(log', "recognize") # {})
              /\ (log'[k].status = "complete" /\ ~threw') =>
                    /\ StackOpsIn(log') = <<log'[k]>> => turnResult' = Result("empty", k)
                    /\ ~RepliedIn(log') => FallbackBeginsIn(log') # {}]_vars

\* C10 witness: QnADialog completed silently, the policy said interrupted,
\* and the fallback still began a dialog
C10_Witness ==
    /\ log # <<>> /\ log[1].op = "continue" /\ log[1].id = QnADialog
    /\ log[1].status = "complete" /\ ~log[1].sent
    /\ \E q \in OpsIn(log, "isTurnInterrupted") : log[q].status = "interrupted"
    /\ FallbackBeginsIn(log) # {}

----------------------------------------------------------------------------
\* The writes of UserData made by locale resolution: every write of the
\* turn but the one the restart command makes right before it cancels the
\* stack and begins Welcome
ResolutionWritesIn(lg, act, l) ==
    IF IsRestart(act, l) THEN OpsIn(lg, "set") \ {Len(lg) - 2} ELSE OpsIn(lg, "set")

(* C11: in every turn locale resolution writes UserData at most once, the  *)
(* write stores the resolved locale and is made only if that differs from  *)
(* the stored one; a turn that finds the resolved locale already stored    *)
(* writes nothing, so after a turn that wrote, the stored locale is the    *)
(* resolved one and resolving it again writes nothing more.                *)
C11_LocaleWrittenOnlyOnChange ==
    [][(Idle /\ ~Idle') =>
          LET ws == ResolutionWritesIn(log', activity', locale')
          IN  /\ Cardinality(ws) <= 1
              /\ \A w \in ws : w = 1 /\ log'[w].arg = locale' /\ userLocale # locale'
              /\ (userLocale = locale' => ws = {})
              /\ (ws # {} => userLocale' = locale')]_vars

\* C11 witness: a turn that carries the hint es-es for a user whose stored
\* locale is es-es already, and writes nothing
C11_Witness ==
    /\ ~Idle /\ activity.locale = "es-es"
    /\ locale = "es-es" /\ userLocale = "es-es"
    /\ OpsIn(log, "set") = {}

----------------------------------------------------------------------------
\* The calls on the Dialog Stack that return a DialogTurnResult
ResultOpsIn(lg) == OpsIn(lg, "begin") \cup OpsIn(lg, "continue")

\* The positions of the calls made on the Dialog Stack
StackOpPositionsIn(lg) == {i \in DOMAIN lg : IsStackOp(lg[i])}

(* C12, as claimed: the result a turn returns is the result of the last    *)
(* call on the Dialog Stack, and it is the default waiting result if and   *)
(* only if no call was made on the stack.  A reprompt and a cancel-all are *)
(* calls on the stack that return nothing: violated.                       *)
C12_ResultOfLastStackOp ==
    (~Idle /\ ~threw) =>
        LET ops == StackOpPositionsIn(log)
        IN  /\ (turnResult = DIALOG_TURN_RESULT_DEFAULT) <=> (ops = {})
            /\ ops # {} => turnResult.from = Last(ops)

(* C12, amended: the result a turn returns is the one returned by the last *)
(* begin or continue of the turn, the complete of an active QnADialog      *)
(* continued first being read as empty; it is the default waiting result   *)
(* if and only if the turn made no begin and no continue.  Reprompt and    *)
(* cancel-all return nothing and leave the result as it was.               *)
C12_ResultOfLastBeginOrContinue ==
    (~Idle /\ ~threw) =>
        LET rs == ResultOpsIn(log)
        IN  /\ (turnResult = DIALOG_TURN_RESULT_DEFAULT) <=> (rs = {})
            /\ rs # {} =>
                  /\ turnResult.from = Last(rs)
                  /\ turnResult.status =
                        (IF /\ log[Last(rs)].op = "continue"
                            /\ log[Last(rs)].status = "complete"
                            /\ \A q \in OpsIn(log, "recognize") : Last(rs) < q
                         THEN "empty"
                         ELSE log[Last(rs)].status)

\* C12 witness: the only call on the stack was a reprompt and the turn
\* returned the default result
C12_Witness ==
    /\ ~Idle /\ ~threw
    /\ OpsIn(log, "reprompt") # {}
    /\ ResultOpsIn(log) = {}
    /\ turnResult = DIALOG_TURN_RESULT_DEFAULT

----------------------------------------------------------------------------
\* The added members of activity act that are the recipient, the bot
BotEntriesOf(act) == {i \in DOMAIN act.membersAdded : act.membersAdded[i] = "bot"}

(* C13: on a conversationUpdate turn WelcomeDialog is begun exactly once,  *)
(* and nothing else is called on the stack, if membersAdded includes the   *)
(* recipient; otherwise nothing is called on the stack and the default     *)
(* waiting result is returned.  The loop of welcomeUser begins Welcome for *)
(* every entry that is the recipient: violated by a list that names it     *)
(* twice.                                                                  *)
C13_WelcomeBegunExactlyOnce ==
    activity.type = "conversationUpdate" =>
        IF BotEntriesOf(activity) # {}
        THEN /\ Len(StackOpsIn(log)) = 1
             /\ \A b \in OpsIn(log, "begin") : log[b].id = WelcomeDialog
             /\ Cardinality(OpsIn(log, "begin")) = 1
        ELSE /\ StackOpsIn(log) = <<>>
             /\ turnResult = DIALOG_TURN_RESULT_DEFAULT

----------------------------------------------------------------------------
(* C14: a turn whose activity is neither a message nor a                   *)
(* conversationUpdate makes no call on the Dialog Stack, calls neither the *)
(* classifier nor the interruption policy, sends no reply and returns the  *)
(* default waiting result; the stack is after the turn as it was before.   *)
C14_OtherActivityIsNoOp ==
    [][(Idle /\ ~Idle' /\ activity'.type \notin {"message", "conversationUpdate"}) =>
          /\ StackOpsIn(log') = <<>>
          /\ OpsIn(log', "recognize") = {} /\ results' = NoResults
          /\ OpsIn(log', "isTurnInterrupted") = {}
          /\ OpsIn(log', "send") = {} /\ ~RepliedIn(log')
          /\ turnResult' = DIALOG_TURN_RESULT_DEFAULT
          /\ ~threw'
          /\ stack' = stack]_vars

\* C14 witness: a typing activity while GreetingDialog is active over
\* another dialog; the turn only resolved and stored the locale
C14_Witness ==
    /\ activity.type = "typing"
    /\ Len(stack) = 2 /\ activeDialog(stack) = GreetingDialog
    /\ Len(log) = 1 /\ log[1].op = "set"
    /\ turnResult = DIALOG_TURN_RESULT_DEFAULT

----------------------------------------------------------------------------
(* The concurrent host: two turns in flight, each in a conversation of its *)
(* own, for the same user or for two users.  A turn yields at its awaits;  *)
(* the awaits on the Locale Store are steps of their own.  The stack and   *)
(* the classifier are the conversation's own, so all that follows locale   *)
(* resolution is one step, in which the only access to shared state is the *)
(* write the restart command makes.                                        *)

Conversations == {1, 2}

Users == {"u1", "u2"}

\* What the Locale Store may hold for a user when the turns arrive
ConcurrentStoredLocales == {"", "es-es"}

\* The stacks of the conversations when the turns arrive
ConcurrentStacks == {<<>>, <<GreetingDialog>>}

\* The activities of the concurrent turns: the restart command of en-us and
\* an ordinary text, with or without a locale hint
ConcurrentActivities ==
    {Activity("message", text, 0, hint, <<>>) :
        text \in {<<" ", "R", "S", " ">>, <<"H">>}, hint \in {"", "es-es"}}

\* The calls of log lg on the Dialog Stack: what was called, and on which
\* dialog
StackCallsOf(lg) ==
    LET ops == StackOpsIn(lg) IN [i \in DOMAIN ops |-> <<ops[i].op, ops[i].id>>]

\* A turn in flight: the stack of its conversation when it arrived, the
\* locale its last get returned, its activity, the local `locale` of
\* onContinueDialog, the calls it made on the stack, whether it threw, the
\* await it is at, its user, and what the store held for the user when it
\* arrived
ConcurrentTurn(stk, act, usr, stored) ==
    [stack |-> stk, userLocale |-> "", activity |-> act, locale |-> "", log |-> <<>>,
     threw |-> FALSE, pc |-> "getUserLocale", user |-> usr, initial |-> stored]

InitConcurrent ==
    /\ stack = <<>>
    /\ outerActive = FALSE
    /\ userLocale = ""
    /\ activity = NoActivity
    /\ locale = ""
    /\ results = NoResults
    /\ log = <<>>
    /\ turnResult = DIALOG_TURN_RESULT_DEFAULT
    /\ threw = FALSE
    /\ outerLog = <<>>
    /\ localeStore \in [Users -> ConcurrentStoredLocales]
    /\ \E usr \in [Conversations -> Users],
          stk \in [Conversations -> ConcurrentStacks],
          act \in [Conversations -> ConcurrentActivities] :
            turns = [c \in Conversations |->
                        ConcurrentTurn(stk[c], act[c], usr[c], localeStore[usr[c]])]

\* The single-conversation record of Spec is not in use
NoTurnOnRecord ==
    UNCHANGED <<stack, outerActive, userLocale, activity, locale, results, log,
                turnResult, threw, outerLog>>

\* onContinueDialog, line 103: await this.getUserLocale(context)
GetUserLocale(c) ==
    /\ turns[c].pc = "getUserLocale"
    /\ LET stored == localeStore[turns[c].user]
       IN  turns' = [turns EXCEPT ![c].userLocale = stored,
                                  ![c].locale = resolveLocale(stored, turns[c].activity.locale),
                                  ![c].pc = IF stored = "" THEN "setUserLocale" ELSE "dispatch"]
    /\ UNCHANGED localeStore
    /\ NoTurnOnRecord

\* setUserLocale, line 294: await this.userDataAccessor.get(context, new UserData())
SetUserLocaleGet(c) ==
    /\ turns[c].pc = "setUserLocale"
    /\ LET stored == localeStore[turns[c].user]
       IN  turns' = [turns EXCEPT ![c].userLocale = stored,
                                  ![c].pc = IF stored # turns[c].locale /\ turns[c].locale # ""
                                            THEN "set" ELSE "dispatch"]
    /\ UNCHANGED localeStore
    /\ NoTurnOnRecord

\* setUserLocale, line 298: await this.userDataAccessor.set(context, userData)
SetUserLocaleSet(c) ==
    /\ turns[c].pc = "set"
    /\ localeStore' = [localeStore EXCEPT ![turns[c].user] = turns[c].locale]
    /\ turns' = [turns EXCEPT ![c].userLocale = turns[c].locale, ![c].pc = "dispatch"]
    /\ NoTurnOnRecord

\* onContinueDialog, the switch, with the resolved locale, on the
\* conversation's stack
Dispatch(c) ==
    /\ turns[c].pc = "dispatch"
    /\ \E g \in dispatch([Frame(turns[c].stack, localeStore[turns[c].user])
                             EXCEPT !.locale = turns[c].locale],
                         turns[c].activity) :
          /\ localeStore' = [localeStore EXCEPT ![turns[c].user] = g.userLocale]
          /\ turns' = [turns EXCEPT ![c].log = StackCallsOf(g.log),
                                    ![c].threw = g.threw,
                                    ![c].pc = "done"]
    /\ NoTurnOnRecord

NextConcurrent ==
    \E c \in Conversations :
        GetUserLocale(c) \/ SetUserLocaleGet(c) \/ SetUserLocaleSet(c) \/ Dispatch(c)

SpecConcurrent == InitConcurrent /\ [][NextConcurrent]_vars

\* What the store held for user u when the turns arrived
InitialStore ==
    [u \in Users |->
        IF \E c \in Conversations : turns[c].user = u
        THEN turns[CHOOSE c \in Conversations : turns[c].user = u].initial
        ELSE localeStore[u]]

\* The turn of conversation a run to its end, then the turn of conversation
\* b, gives every turn the dispatch locale, the calls on the stack and the
\* exception it had, and the store the locales it holds
SerialOutcome(a, b) ==
    \E fa \in onContinueDialog(Frame(turns[a].stack, InitialStore[turns[a].user]),
                               turns[a].activity) :
        /\ fa.locale = turns[a].locale
        /\ fa.threw = turns[a].threw
        /\ StackCallsOf(fa.log) = turns[a].log
        /\ LET after == [InitialStore EXCEPT ![turns[a].user] = fa.userLocale]
           IN  \E fb \in onContinueDialog(Frame(turns[b].stack, after[turns[b].user]),
                                          turns[b].activity) :
                  /\ fb.locale = turns[b].locale
                  /\ fb.threw = turns[b].threw
                  /\ StackCallsOf(fb.log) = turns[b].log
                  /\ localeStore = [after EXCEPT ![turns[b].user] = fb.userLocale]

\* Both turns have returned
AllDone == \A c \in Conversations : turns[c].pc = "done"

(* C15: when the turns of two conversations interleave at their awaits,    *)
(* what comes out, the dispatch locale and the calls on the stack of each  *)
(* turn and the stored locale of each user, is what one of the two serial  *)
(* orders gives, also when both conversations are of one user.  Two turns  *)
(* of a user with no stored locale can both read it as absent and resolve  *)
(* different locales: violated.                                            *)
C15_ConcurrentTurnsSerializable ==
    (turns # <<>> /\ AllDone) => (SerialOutcome(1, 2) \/ SerialOutcome(2, 1))

----------------------------------------------------------------------------
(* C16: in a message turn the router continues the Dialog Stack at most    *)
(* once, so no active dialog is given the same message twice; an active    *)
(* QnADialog that was continued first and still waits is not continued     *)
(* again in the turn.  The continue of the interruption step follows the   *)
(* one of the active QnADialog whenever the policy says not interrupted:   *)
(* violated.                                                               *)
C16_ContinuedAtMostOnce ==
    activity.type = "message" =>
        Cardinality({c \in OpsIn(log, "continue") : log[c].id # None}) <= 1

----------------------------------------------------------------------------
\* The calls the fallback dispatch made on the stack: the begins and the
\* cancel-all after the interruption policy was asked
FallbackOpsIn(lg) ==
    {i \in OpsIn(lg, "begin") \cup OpsIn(lg, "cancelAll") :
        \E q \in OpsIn(lg, "isTurnInterrupted") : q < i}

\* No dialog was active once the interruption step was over: the stack was
\* empty when the fallback dispatch made its call or, if it made none, is
\* empty after the turn
NoActiveDialogAfterInterruption ==
    IF FallbackOpsIn(log) # {}
    THEN \A i \in FallbackOpsIn(log) : log[i].depth = 0
    ELSE stack = <<>>

(* C17: in a message turn that is neither attachment-only nor a restart,   *)
(* if no dialog is active once the interruption step is over and no reply  *)
(* was sent, the fallback dispatch begins a dialog, also when the policy   *)
(* said interrupted with no dialog active; the fail-safe reset on an       *)
(* anomalous status aside.  The fallback dispatch reads the result of the  *)
(* last continue, which is the default waiting result when the policy said *)
(* interrupted and nothing was continued: violated.                        *)
C17_FallbackWhenNothingActive ==
    (/\ IsRouted(activity, locale) /\ ~threw
     /\ OpsIn(log, "isTurnInterrupted") # {}
     /\ StatusAfterInterruptionIn(log) \in {"empty", "waiting", "complete"}
     /\ NoActiveDialogAfterInterruption
     /\ ~RepliedIn(log))
        => FallbackBeginsIn(log) # {}

----------------------------------------------------------------------------
(* C18: when the interruption policy returns true and CancelDialog is the  *)
(* active dialog, CancelDialog is continued and not reprompted; when it    *)
(* returns true and no dialog is active, the interruption step makes no    *)
(* call on the stack; when it returns false, the stack is continued,       *)
(* whether or not a dialog is active.                                      *)
C18_InterruptionStep ==
    \A q \in OpsIn(log, "isTurnInterrupted") :
        /\ (log[q].status = "interrupted" /\ log[q].id = CancelDialog) =>
              /\ Len(log) > q
              /\ log[q + 1].op = "continue" /\ log[q + 1].id = CancelDialog
              /\ \A i \in OpsIn(log, "reprompt") : i < q
        /\ (log[q].status = "interrupted" /\ log[q].id = None) =>
              \A i \in (q + 1)..Len(log) : log[i].op \notin {"continue", "reprompt"}
        /\ log[q].status = "notInterrupted" =>
              /\ Len(log) > q
              /\ log[q + 1].op = "continue" /\ log[q + 1].id = log[q].id

\* C18 witness: the policy said interrupted while CancelDialog was active
\* over another dialog; CancelDialog was continued and ended
C18_Witness ==
    \E q \in OpsIn(log, "isTurnInterrupted") :
        /\ log[q].status = "interrupted" /\ log[q].id = CancelDialog /\ log[q].depth = 2
        /\ Len(log) = q + 1
        /\ log[q + 1].op = "continue" /\ log[q + 1].status = "waiting"
        /\ Len(stack) = 1

----------------------------------------------------------------------------
(* C19: for a user who starts with no stored locale, whatever turns are    *)
(* processed, one at a time: the stored locale is empty or a supported     *)
(* locale; once it is not empty no turn changes it, whatever hint the turn *)
(* carries; and the write of a restart command stores the value that was   *)
(* stored already.                                                         *)
C19_StoredLocaleSupportedAndStable ==
    [][/\ userLocale \in {""} \cup getLocales
       /\ userLocale' \in {""} \cup getLocales
       /\ (userLocale # "" => userLocale' = userLocale)
       /\ (userLocale # "" /\ IsRestart(activity', locale')) =>
              /\ OpsIn(log', "set") # {}
              /\ \A w \in OpsIn(log', "set") : log'[w].arg = userLocale]_vars

\* C19 witness: es-es was stored by an earlier turn; a restart command that
\* carries an unsupported hint wrote es-es back
C19_Witness ==
    /\ IsRestart(activity, locale)
    /\ activity.locale = UnsupportedLocale
    /\ Len(log) = 3 /\ log[1].op = "set" /\ log[1].arg = "es-es"
    /\ userLocale = "es-es"

----------------------------------------------------------------------------
\* The calls of run that ran the router's handler: a continue that found
\* MainDialog on the stack, and a begin of MainDialog
RouterRunsIn(lg) == {i \in DOMAIN lg : lg[i].id = MainDialogId}

(* C20: every call of run continues the outer stack exactly once, first of *)
(* all, and begins MainDialog, once, if and only if that continue reported *)
(* empty; the router's handler runs exactly once in the turn.              *)
C20_RouterRunsExactlyOnce ==
    ~Idle =>
        /\ outerLog # <<>>
        /\ OpsIn(outerLog, "continue") = {1}
        /\ OpsIn(outerLog, "begin") # {} <=> outerLog[1].status = "empty"
        /\ Cardinality(OpsIn(outerLog, "begin")) <= 1
        /\ \A b \in OpsIn(outerLog, "begin") : outerLog[b].id = MainDialogId
        /\ Cardinality(RouterRunsIn(outerLog)) = 1

\* C20 witness: MainDialog was on the stack, its handler returned a status
\* other than waiting, the component ended and was not begun again
C20_Witness ==
    /\ ~Idle
    /\ outerLog = <<Call("continue", MainDialogId, "complete", FALSE, None, 1)>>
    /\ turnResult.status = "empty"
    /\ ~outerActive

====
